---- MODULE Spec2Model ----
(***************************************************************************)
(* State-machine model of the pedometer application: StepCounter,          *)
(* ResetTimer, StorageManager and the StepCounterApp life cycle.           *)
(*                                                                         *)
(* Time is in milliseconds.  Instant 0 is local midnight of day 0 of the   *)
(* model's calendar.  The local time zone has one daylight-saving          *)
(* transition (clocks go forward by DstShift at DstStart); before it the   *)
(* zone behaves like a zone without daylight saving.                       *)
(* Accelerations are in tenths of m/s^2, so that the threshold 0.5 is 5.   *)
(***************************************************************************)
EXTENDS Integers, Sequences, FiniteSets, TLC

VARIABLES
    now,            \* the platform clock (Date.now())
    lsStepData,     \* localStorage['stepCounter_currentData']
    lsResetTime,    \* localStorage['stepCounter_resetTime']
    lsHistory,      \* localStorage['stepCounter_history']
    phase,          \* life cycle of the page: "closed" or "running"
    currentSteps,   \* StepCounter.currentSteps
    lastStepTime,   \* StepCounter.lastStepTime
    observers,      \* StepCounter.observers
    timerId,        \* ResetTimer.timerId
    timers,         \* the platform's pending setTimeout entries
    lsWritable,     \* FALSE while localStorage.setItem throws
    lsReadable,     \* FALSE while localStorage.getItem throws
    listening,      \* SensorAdapter.isListening
    adapter,        \* SensorAdapter's devicemotion handlers and suspended calls
    caught,         \* history variable: the last boundary start() caught up
    lastQualifying, \* history variable: the last sample over the threshold
    ev              \* history variable: the last operation and its outcome

vars == <<now, lsStepData, lsResetTime, lsHistory, phase, currentSteps,
          lastStepTime, observers, timerId, timers, lsWritable, lsReadable,
          listening, adapter, caught, lastQualifying, ev>>

\* null (an absent localStorage item, a missing record) is the empty
\* sequence and a present value x is <<x>>
Null == <<>>
Some(x) == <<x>>
NoTimer == 0

----------------------------------------------------------------------------
(* Bounds of the model                                                     *)

MaxDay == 1             \* the clock stops at local midnight of day MaxDay + 1
MaxFine == 4            \* clock steps of a quarter debounce window after the start
MaxSteps == 2           \* sensor steps accepted per period
MaxManual == 1          \* the manual button works while the count is below this
MaxHistory == 2         \* history appends per run of the model
MaxTimers == 3          \* timer ids the platform hands out
MaxObservers == 2       \* registered observers
MaxSaves == 32          \* saveHistory calls on the storage manager alone
MaxPending == 2         \* startListening calls suspended at their await
MaxHandlers == 3        \* devicemotion handlers registered or about to be

----------------------------------------------------------------------------
(* Program constants                                                       *)

Minute == 60000
Hour == 3600000
Day == 86400000
StepThresholdTenths == 5
MinStepInterval == 200
HistoryCap == 30
FineStep == MinStepInterval \div 4

----------------------------------------------------------------------------
(* The local calendar (the semantics of Date in the local time zone)       *)

DstStart == Day + 2 * Hour
DstShift == Hour

\* Date.prototype.getTimezoneOffset, as milliseconds ahead of standard time
Offset(t) == IF t >= DstStart THEN DstShift ELSE 0

\* LocalTime(t): the wall-clock reading at instant t
LocalTime(t) == t + Offset(t)

\* UTC(t) of ECMAScript: a wall-clock reading skipped by the transition is
\* interpreted with the offset before the transition
UTCFromLocal(w) == IF w < DstStart + DstShift THEN w ELSE w - DstShift

\* date.setHours(h, m, 0, 0)
SetHours(t, h, m) ==
    UTCFromLocal((LocalTime(t) \div Day) * Day + h * Hour + m * Minute)

\* date.setDate(date.getDate() + k)
AddDays(t, k) == UTCFromLocal(LocalTime(t) + k * Day)

\* date.toISOString(): the UTC calendar fields of the instant
ToISOString(t) == [day |-> t \div Day, msOfDay |-> t % Day]

----------------------------------------------------------------------------
(* Reset-time strings: sequences of characters                             *)

Digits == {"0", "1", "2", "3", "4", "5", "6", "7", "8", "9"}

DigitVal(c) ==
    CASE c = "0" -> 0 [] c = "1" -> 1 [] c = "2" -> 2 [] c = "3" -> 3
      [] c = "4" -> 4 [] c = "5" -> 5 [] c = "6" -> 6 [] c = "7" -> 7
      [] c = "8" -> 8 [] c = "9" -> 9

\* /^([0-1][0-9]|2[0-3]):[0-5][0-9]$/.test(s)
IsValidResetTime(s) ==
    /\ Len(s) = 5
    /\ \/ s[1] \in {"0", "1"} /\ s[2] \in Digits
       \/ s[1] = "2" /\ s[2] \in {"0", "1", "2", "3"}
    /\ s[3] = ":"
    /\ s[4] \in {"0", "1", "2", "3", "4", "5"}
    /\ s[5] \in Digits

\* resetTime.split(':').map(Number), for a string of the HH:MM grammar
ParseResetTime(s) ==
    <<DigitVal(s[1]) * 10 + DigitVal(s[2]), DigitVal(s[4]) * 10 + DigitVal(s[5])>>

DEFAULT_RESET_TIME == <<"0", "0", ":", "0", "0">>
T1500 == <<"1", "5", ":", "0", "0">>
T2400 == <<"2", "4", ":", "0", "0">>
T0230 == <<"0", "2", ":", "3", "0">>
T2359 == <<"2", "3", ":", "5", "9">>

ValidTimes == {DEFAULT_RESET_TIME, T1500}
CandidateTimes == ValidTimes \cup {T2400}

----------------------------------------------------------------------------
(* Boundary calculations.  Each function reads the clock twice: n1 is the  *)
(* reading kept as "now", n2 the reading the boundary is built from.       *)

\* calculateNextResetTime with the comparison nextReset < now
CalculateNextResetTimeBefore(resetTime, n1, n2) ==
    LET hm == ParseResetTime(resetTime)
        nextReset == SetHours(n2, hm[1], hm[2])
    IN  IF nextReset < n1 THEN AddDays(nextReset, 1) ELSE nextReset

\* ResetTimer.calculateNextResetTime
CalculateNextResetTime(resetTime, n1, n2) ==
    LET hm == ParseResetTime(resetTime)
        nextReset == SetHours(n2, hm[1], hm[2])
    IN  IF nextReset <= n1 THEN AddDays(nextReset, 1) ELSE nextReset

\* calculateLastResetTime with the comparison lastReset >= now
CalculateLastResetTimeAtOrAfter(resetTime, n1, n2) ==
    LET hm == ParseResetTime(resetTime)
        lastReset == SetHours(n2, hm[1], hm[2])
    IN  IF lastReset >= n1 THEN AddDays(lastReset, -1) ELSE lastReset

\* ResetTimer.calculateLastResetTime
CalculateLastResetTime(resetTime, n1, n2) ==
    LET hm == ParseResetTime(resetTime)
        lastReset == SetHours(n2, hm[1], hm[2])
    IN  IF lastReset > n1 THEN AddDays(lastReset, -1) ELSE lastReset

\* the counter's calculateLastResetTime with the comparison lastReset >= now
StepCounterCalculateLastResetTimeAtOrAfter(resetTime, n1, n2) ==
    LET hm == ParseResetTime(resetTime)
        lastReset == SetHours(n2, hm[1], hm[2])
    IN  IF lastReset >= n1 THEN AddDays(lastReset, -1) ELSE lastReset

\* StepCounter.calculateLastResetTime
StepCounterCalculateLastResetTime(resetTime, n1, n2) ==
    LET hm == ParseResetTime(resetTime)
        lastReset == SetHours(n2, hm[1], hm[2])
    IN  IF lastReset > n1 THEN AddDays(lastReset, -1) ELSE lastReset

----------------------------------------------------------------------------
(* The instants the model's clock visits: every boundary of every modelled *)
(* reset time, and the millisecond before it.                              *)

StartTime == Day
EndTime == UTCFromLocal((MaxDay + 1) * Day)

BoundaryOn(d, r) ==
    SetHours(UTCFromLocal(d * Day + 12 * Hour), ParseResetTime(r)[1], ParseResetTime(r)[2])

Boundaries == {BoundaryOn(d, r) : d \in 1..(MaxDay + 1), r \in ValidTimes}

Grid == {t \in Boundaries \cup {b - 1 : b \in Boundaries} :
            t >= StartTime /\ t <= EndTime}

----------------------------------------------------------------------------
(* StorageManager over localStorage.  A stored JSON text is modelled by    *)
(* its sequence of keys and values.                                        *)

\* Number.POSITIVE_INFINITY: above every finite number of the model
Infinity == 2147483647

\* JSON.stringify of a number: a non-finite number is written as null.  A
\* number token is Some(x), the null token is Null.
JSONNumber(x) == IF x = Infinity THEN Null ELSE Some(x)

JSONStringifyStepData(data) ==
    <<"steps", JSONNumber(data.steps), "timestamp", JSONNumber(data.timestamp)>>
JSONParseStepData(text) == [steps |-> text[2], timestamp |-> text[4]]

JSONStringifyEntry(entry) == <<"steps", entry.steps, "date", entry.date>>
JSONParseEntry(text) == [steps |-> text[2], date |-> text[4]]

\* the part of the program state the operations below transform
Machine ==
    [currentSteps |-> currentSteps, lastStepTime |-> lastStepTime,
     observers |-> observers, lsStepData |-> lsStepData,
     lsResetTime |-> lsResetTime, lsHistory |-> lsHistory,
     timerId |-> timerId, timers |-> timers,
     lsWritable |-> lsWritable, lsReadable |-> lsReadable,
     listening |-> listening, adapter |-> adapter, caught |-> caught,
     notes |-> <<>>, seen |-> <<>>, resets |-> <<>>, ok |-> TRUE, threw |-> FALSE]

\* StorageManager.saveStepData: M.ok is the returned flag
SaveStepData(M, data) ==
    IF /\ data.steps >= 0 /\ data.steps # Infinity
       /\ data.timestamp >= 0
       /\ M.lsWritable
    THEN [M EXCEPT !.lsStepData = Some(JSONStringifyStepData(data)), !.ok = TRUE]
    ELSE [M EXCEPT !.ok = FALSE]

\* the text is the JSON of an object with the fields steps and timestamp;
\* any other text either fails JSON.parse or parses to a value without
\* numeric steps and timestamp
IsStepDataText(text) ==
    /\ Len(text) = 4
    /\ text[1] = "steps"
    /\ text[3] = "timestamp"

\* loadStepData returning whatever JSON.parse gave, without the checks
LoadStepDataUnchecked(M) ==
    IF ~M.lsReadable THEN Null
    ELSE IF M.lsStepData = Null \/ M.lsStepData[1] = <<>> THEN Null
    ELSE IF ~IsStepDataText(M.lsStepData[1]) THEN Some([steps |-> 0, timestamp |-> 0])
    ELSE LET parsed == JSONParseStepData(M.lsStepData[1])
         IN  Some([steps |-> IF parsed.steps = Null THEN 0 ELSE parsed.steps[1],
                   timestamp |-> IF parsed.timestamp = Null THEN 0
                                 ELSE parsed.timestamp[1]])

\* StorageManager.loadStepData: a getItem or JSON.parse that throws, and a
\* parsed value that fails a check, end in the catch block, which returns
\* null
LoadStepData(M) ==
    IF ~M.lsReadable THEN Null
    ELSE IF M.lsStepData = Null \/ M.lsStepData[1] = <<>> THEN Null
    ELSE IF ~IsStepDataText(M.lsStepData[1]) THEN Null
    ELSE LET parsed == JSONParseStepData(M.lsStepData[1])
         IN  IF \/ parsed.steps = Null \/ parsed.steps[1] < 0
                \/ parsed.timestamp = Null \/ parsed.timestamp[1] < 0
             THEN Null
             ELSE Some([steps |-> parsed.steps[1], timestamp |-> parsed.timestamp[1]])

\* StorageManager.getResetTime
GetResetTime(M) ==
    IF ~M.lsReadable THEN DEFAULT_RESET_TIME
    ELSE IF M.lsResetTime = Null \/ M.lsResetTime[1] = <<>> THEN DEFAULT_RESET_TIME
    ELSE IF ~IsValidResetTime(M.lsResetTime[1]) THEN DEFAULT_RESET_TIME
    ELSE M.lsResetTime[1]

\* setResetTime without the format check
SetResetTimeUnchecked(M, time) ==
    IF M.lsWritable
    THEN [M EXCEPT !.lsResetTime = Some(time), !.ok = TRUE]
    ELSE [M EXCEPT !.ok = FALSE]

\* StorageManager.setResetTime
SetResetTime(M, time) ==
    IF IsValidResetTime(time) /\ M.lsWritable
    THEN [M EXCEPT !.lsResetTime = Some(time), !.ok = TRUE]
    ELSE [M EXCEPT !.ok = FALSE]

\* the text is the JSON of an object with the fields steps and date
IsEntryText(text) ==
    /\ Len(text) = 4
    /\ text[1] = "steps"
    /\ text[3] = "date"

\* StorageManager.loadHistory: the text of the array is modelled by the
\* sequence of the texts of its elements; a text that is not the JSON of an
\* array of entries holds an element that is not an entry
LoadHistory(M) ==
    IF ~M.lsReadable THEN <<>>
    ELSE IF M.lsHistory = Null THEN <<>>
    ELSE IF \E i \in 1..Len(M.lsHistory[1]) : ~IsEntryText(M.lsHistory[1][i]) THEN <<>>
    ELSE LET parsed == [i \in 1..Len(M.lsHistory[1]) |-> JSONParseEntry(M.lsHistory[1][i])]
         IN  IF \E i \in 1..Len(parsed) : parsed[i].steps < 0 THEN <<>> ELSE parsed

\* history.slice(-30)
SliceLast(h, n) == IF Len(h) <= n THEN h ELSE SubSeq(h, Len(h) - n + 1, Len(h))

\* saveHistory keeping the first 30 entries, history.slice(0, 30)
SaveHistoryKeepFirst(M, entry) ==
    IF entry.steps >= 0 /\ M.lsWritable
    THEN LET history == Append(LoadHistory(M), entry)
             recentHistory == IF Len(history) <= HistoryCap THEN history
                              ELSE SubSeq(history, 1, HistoryCap)
         IN  [M EXCEPT !.lsHistory =
                          Some([i \in 1..Len(recentHistory) |-> JSONStringifyEntry(recentHistory[i])]),
                       !.ok = TRUE]
    ELSE [M EXCEPT !.ok = FALSE]

\* StorageManager.saveHistory
SaveHistory(M, entry) ==
    IF entry.steps >= 0 /\ M.lsWritable
    THEN LET history == Append(LoadHistory(M), entry)
             recentHistory == SliceLast(history, HistoryCap)
         IN  [M EXCEPT !.lsHistory =
                          Some([i \in 1..Len(recentHistory) |-> JSONStringifyEntry(recentHistory[i])]),
                       !.ok = TRUE]
    ELSE [M EXCEPT !.ok = FALSE]

----------------------------------------------------------------------------
(* StepCounter                                                             *)

Max(a, b) == IF a >= b THEN a ELSE b

AccelSamples == {<<3, 3, 2>>, <<5, 0, 0>>, <<0, -6, 0>>}

\* Math.sqrt(x ** 2 + y ** 2 + z ** 2), kept as its square
MagnitudeSq(a) == a[1] * a[1] + a[2] * a[2] + a[3] * a[3]

\* magnitude > this.stepThreshold, on the squares of two non-negative numbers
OverThreshold(a) == MagnitudeSq(a) > StepThresholdTenths * StepThresholdTenths

\* getCurrentSteps without the floor at zero
GetCurrentStepsRaw(M) == M.currentSteps

\* StepCounter.getCurrentSteps
GetCurrentSteps(M) == Max(0, M.currentSteps)

\* the observer callbacks that throw when they are called
Throws(o) == o = "faulty"

\* what an observer finds in the counter and in storage when it is called
Seen(M, o) ==
    [observer |-> o, stored |-> M.lsStepData, lastStepTime |-> M.lastStepTime]

\* StepCounter.addObserver
AddObserver(M, o) == [M EXCEPT !.observers = Append(M.observers, o)]

\* this.observers.indexOf(observer)
IndexOf(seq, o) ==
    IF \E i \in 1..Len(seq) : seq[i] = o
    THEN CHOOSE i \in 1..Len(seq) : seq[i] = o /\ \A j \in 1..(i - 1) : seq[j] # o
    ELSE 0

\* StepCounter.removeObserver
RemoveObserver(M, o) ==
    LET index == IndexOf(M.observers, o)
    IN  IF index > 0
        THEN [M EXCEPT !.observers =
                 SubSeq(M.observers, 1, index - 1) \o
                 SubSeq(M.observers, index + 1, Len(M.observers))]
        ELSE M

\* what the callback of observer o does to the observer list when it is
\* called: "once" unsubscribes itself, "evictor" unsubscribes "extra",
\* "adder" subscribes "late" unless it is subscribed; the others leave the
\* list alone
Callback(M, o) ==
    CASE o = "once" -> RemoveObserver(M, "once")
      [] o = "evictor" -> RemoveObserver(M, "extra")
      [] o = "adder" /\ IndexOf(M.observers, "late") = 0 -> AddObserver(M, "late")
      [] OTHER -> M

\* the loop for (const observer of this.observers) from array index i on:
\* the array iterator reads this.observers[i] and the current length at
\* every step, so a splice or push made by a callback moves the elements
\* under it
RECURSIVE NotifyFrom(_, _)
NotifyFrom(M, i) ==
    IF i > Len(M.observers) THEN M
    ELSE LET o == M.observers[i]
             M1 == [M EXCEPT !.notes = Append(M.notes, <<o, M.currentSteps>>),
                             !.seen = Append(M.seen, Seen(M, o))]
         IN  NotifyFrom(Callback(M1, o), i + 1)

\* notifyObservers without the try block around the call: the first
\* observer that throws ends the loop and the exception leaves the method
NotifyObserversUnguarded(M) ==
    LET throwers == {i \in 1..Len(M.observers) : Throws(M.observers[i])}
        last == IF throwers = {} THEN Len(M.observers)
                ELSE CHOOSE i \in throwers : \A j \in throwers : i <= j
    IN  [M EXCEPT !.notes = M.notes \o
                      [i \in 1..last |-> <<M.observers[i], M.currentSteps>>],
                  !.seen = M.seen \o [i \in 1..last |-> Seen(M, M.observers[i])],
                  !.threw = throwers # {}]

\* StepCounter.notifyObservers: each call is made inside try/catch, so an
\* observer that throws is logged and the loop goes on
NotifyObservers(M) == NotifyFrom(M, 1)

\* isCurrentPeriod with the comparison timestamp > lastReset
IsCurrentPeriodStrict(M, timestamp, t) ==
    timestamp > StepCounterCalculateLastResetTime(GetResetTime(M), t, t)

\* StepCounter.isCurrentPeriod at clock reading t
IsCurrentPeriod(M, timestamp, t) ==
    timestamp >= StepCounterCalculateLastResetTime(GetResetTime(M), t, t)

\* initialize restoring the stored count whatever its timestamp
InitializeRestoreAlways(M, t) ==
    LET savedData == LoadStepData(M)
    IN  IF savedData # Null
        THEN [M EXCEPT !.currentSteps = savedData[1].steps]
        ELSE SaveStepData([M EXCEPT !.currentSteps = 0],
                          [steps |-> 0, timestamp |-> t])

\* initialize starting the motion feed as well
InitializeAndListen(M, t) ==
    LET savedData == LoadStepData(M)
    IN  IF savedData # Null /\ IsCurrentPeriod(M, savedData[1].timestamp, t)
        THEN [M EXCEPT !.currentSteps = savedData[1].steps, !.listening = TRUE]
        ELSE SaveStepData([M EXCEPT !.currentSteps = 0, !.listening = TRUE],
                          [steps |-> 0, timestamp |-> t])

\* initialize restoring only a record stamped after the last boundary
InitializeAfterBoundary(M, t) ==
    LET savedData == LoadStepData(M)
    IN  IF savedData # Null /\ IsCurrentPeriodStrict(M, savedData[1].timestamp, t)
        THEN [M EXCEPT !.currentSteps = savedData[1].steps]
        ELSE SaveStepData([M EXCEPT !.currentSteps = 0],
                          [steps |-> 0, timestamp |-> t])

\* StepCounter.initialize at clock reading t
Initialize(M, t) ==
    LET savedData == LoadStepData(M)
    IN  IF savedData # Null /\ IsCurrentPeriod(M, savedData[1].timestamp, t)
        THEN [M EXCEPT !.currentSteps = savedData[1].steps]
        ELSE SaveStepData([M EXCEPT !.currentSteps = 0],
                          [steps |-> 0, timestamp |-> t])

\* isStep with the comparison magnitude >= threshold
IsStepAtThreshold(M, a, t) ==
    /\ MagnitudeSq(a) >= StepThresholdTenths * StepThresholdTenths
    /\ t - M.lastStepTime >= MinStepInterval

\* isStep without the minimum interval
IsStepWithoutInterval(M, a, t) == OverThreshold(a)

\* the value StepCounter.isStep returns at clock reading t
IsStep(M, a, t) == OverThreshold(a) /\ t - M.lastStepTime >= MinStepInterval

\* incrementStep adding 2
IncrementStepTwice(M, t) ==
    LET M1 == [M EXCEPT !.currentSteps = M.currentSteps + 2]
        M2 == SaveStepData(M1, [steps |-> M1.currentSteps, timestamp |-> t])
    IN  NotifyObservers(M2)

\* incrementStep notifying the observers only when the write succeeded
IncrementStepNotifyOnSuccess(M, t) ==
    LET M1 == [M EXCEPT !.currentSteps = M.currentSteps + 1]
        M2 == SaveStepData(M1, [steps |-> M1.currentSteps, timestamp |-> t])
    IN  IF M2.ok THEN NotifyObservers(M2) ELSE M2

\* incrementStep notifying the observers before it writes the record
IncrementStepNotifyFirst(M, t) ==
    LET M1 == [M EXCEPT !.currentSteps = M.currentSteps + 1]
        M2 == NotifyObservers(M1)
    IN  SaveStepData(M2, [steps |-> M2.currentSteps, timestamp |-> t])

\* StepCounter.incrementStep
IncrementStep(M, t) ==
    LET M1 == [M EXCEPT !.currentSteps = M.currentSteps + 1]
        M2 == SaveStepData(M1, [steps |-> M1.currentSteps, timestamp |-> t])
    IN  NotifyObservers(M2)

\* onMotionDetected stamping lastStepTime on every sample over the threshold
OnMotionDetectedStamping(M, a, t) ==
    IF IsStep(M, a, t)
    THEN IncrementStep([M EXCEPT !.lastStepTime = t], t)
    ELSE IF OverThreshold(a) THEN [M EXCEPT !.lastStepTime = t]
    ELSE M

\* StepCounter.onMotionDetected, with isStep's assignment to lastStepTime
OnMotionDetected(M, a, t) ==
    IF IsStep(M, a, t)
    THEN IncrementStep([M EXCEPT !.lastStepTime = t], t)
    ELSE M

\* StepCounter.reset appending the count to the history itself
ResetArchiving(M, t) ==
    LET M0 == SaveHistory(M, [steps |-> Max(0, M.currentSteps), date |-> ToISOString(t)])
        M1 == [M0 EXCEPT !.currentSteps = 0]
        M2 == SaveStepData(M1, [steps |-> 0, timestamp |-> t])
    IN  NotifyObservers(M2)

\* reset storing and announcing 0 while the counter keeps its count
ResetStoredOnly(M, t) ==
    LET M2 == SaveStepData(M, [steps |-> 0, timestamp |-> t])
    IN  [M2 EXCEPT !.notes = M2.notes \o
                       [i \in 1..Len(M.observers) |-> <<M.observers[i], 0>>],
                   !.seen = M2.seen \o
                       [i \in 1..Len(M.observers) |-> Seen(M2, M.observers[i])]]

\* reset without the write to storage
ResetWithoutSave(M, t) == NotifyObservers([M EXCEPT !.currentSteps = 0])

\* StepCounter.reset
Reset(M, t) ==
    LET M1 == [M EXCEPT !.currentSteps = 0]
        M2 == SaveStepData(M1, [steps |-> 0, timestamp |-> t])
    IN  NotifyObservers(M2)

\* the adapter as its constructor leaves it: no handler registered, none
\* held in boundHandleMotion (0), no startListening call suspended
IdleAdapter == [handlers |-> {}, bound |-> 0, awaiting |-> 0]

\* this.handleMotion.bind(this) makes a new function object at every call
FreshHandler(handlers) ==
    CHOOSE h \in 1..(Cardinality(handlers) + 1) :
        h \notin handlers /\ \A j \in 1..(h - 1) : j \in handlers

\* SensorAdapter.startListening up to its await of requestPermission():
\* M.ok is FALSE when the promise rejects (no DeviceMotion API)
StartListeningUntilAwait(M, available) ==
    IF M.listening THEN M
    ELSE IF ~available THEN [M EXCEPT !.ok = FALSE]
    ELSE [M EXCEPT !.adapter.awaiting = @ + 1]

\* SensorAdapter.startListening from the await on, with the answer of
\* requestPermission(): M.ok is FALSE when the promise rejects (denied)
StartListeningAfterAwait(M, granted) ==
    LET M1 == [M EXCEPT !.adapter.awaiting = @ - 1]
        h == FreshHandler(M1.adapter.handlers)
    IN  IF ~granted THEN [M1 EXCEPT !.ok = FALSE]
        ELSE [M1 EXCEPT !.listening = TRUE,
                        !.adapter.bound = h,
                        !.adapter.handlers = @ \cup {h}]

\* SensorAdapter.startListening run from call to settlement with no other
\* call of the adapter in between
StartListening(M, available, granted) ==
    LET M1 == StartListeningUntilAwait(M, available)
    IN  IF M1.adapter.awaiting > M.adapter.awaiting
        THEN StartListeningAfterAwait(M1, granted)
        ELSE M1

\* startSensorListening catching the error without throwing it again
StartSensorListeningSwallowing(M, available, granted) ==
    [StartListening(M, available, granted) EXCEPT !.ok = TRUE]

\* StepCounter.startSensorListening
StartSensorListening(M, available, granted) == StartListening(M, available, granted)

\* SensorAdapter.stopListening, called by StepCounter.stopListening
StopListening(M) ==
    IF ~M.listening THEN M
    ELSE [M EXCEPT !.adapter.handlers = @ \ {M.adapter.bound},
                   !.adapter.bound = 0,
                   !.listening = FALSE]

----------------------------------------------------------------------------
(* ResetTimer                                                              *)

\* M.resets lists, for each executeReset of the operation, the count
\* getCurrentSteps() had when executeReset was entered
Entered(M) == [M EXCEPT !.resets = Append(M.resets, Max(0, M.currentSteps))]

\* executeReset with the history written after the reset
ExecuteResetThenArchive(M, t) ==
    LET M1 == Reset(Entered(M), t)
    IN  SaveHistory(M1, [steps |-> GetCurrentSteps(M1), date |-> ToISOString(t)])

\* executeReset resetting the counter only when the history was written
ExecuteResetIfArchived(M, t) ==
    LET currentStepsRead == GetCurrentSteps(M)
        M1 == SaveHistory(Entered(M),
                          [steps |-> currentStepsRead, date |-> ToISOString(t)])
    IN  IF M1.ok THEN Reset(M1, t) ELSE M1

\* ResetTimer.executeReset
ExecuteReset(M, t) ==
    LET currentStepsRead == GetCurrentSteps(M)
        M1 == SaveHistory(Entered(M),
                          [steps |-> currentStepsRead, date |-> ToISOString(t)])
    IN  Reset(M1, t)

\* clearTimeout(id)
ClearTimeout(pending, id) == {tm \in pending : tm.id # id}

\* the id setTimeout returns: one that names no pending entry and that the
\* program does not hold (the platform never hands out an id twice)
FreshId(pending, held) ==
    CHOOSE i \in 1..MaxTimers : i # held /\ \A tm \in pending : tm.id # i

\* scheduleReset without the clearTimeout of the wake-up it holds
ScheduleResetWithoutClear(M, milliseconds, t) ==
    LET id == FreshId(M.timers, M.timerId)
    IN  [M EXCEPT !.timers = M.timers \cup
                      {[id |-> id, due |-> t + Max(0, milliseconds)]},
                  !.timerId = id]

\* ResetTimer.scheduleReset called at clock reading t
ScheduleReset(M, milliseconds, t) ==
    LET cleared == IF M.timerId # NoTimer
                   THEN ClearTimeout(M.timers, M.timerId)
                   ELSE M.timers
        id == FreshId(cleared, M.timerId)
    IN  [M EXCEPT !.timers = cleared \cup
                      {[id |-> id, due |-> t + Max(0, milliseconds)]},
                  !.timerId = id]

\* start running the catch-up reset also when no record is stored
StartResetWithoutRecord(M, a, b) ==
    LET resetTime == GetResetTime(M)
        nextReset == CalculateNextResetTime(resetTime, a, a)
        lastReset == CalculateLastResetTime(resetTime, b, b)
        savedData == LoadStepData(M)
        M1 == IF savedData = Null \/ savedData[1].timestamp < lastReset
              THEN [ExecuteReset(M, b) EXCEPT !.caught = lastReset]
              ELSE M
    IN  ScheduleReset(M1, nextReset - b, b)

\* start with the comparison savedData.timestamp <= lastReset
StartAtOrBefore(M, a, b) ==
    LET resetTime == GetResetTime(M)
        nextReset == CalculateNextResetTime(resetTime, a, a)
        lastReset == CalculateLastResetTime(resetTime, b, b)
        savedData == LoadStepData(M)
        M1 == IF savedData # Null /\ savedData[1].timestamp <= lastReset
              THEN [ExecuteReset(M, b) EXCEPT !.caught = lastReset]
              ELSE M
    IN  ScheduleReset(M1, nextReset - b, b)

\* start arming the wake-up a fixed 24 hours ahead
StartFixedDelay(M, a, b) ==
    LET resetTime == GetResetTime(M)
        lastReset == CalculateLastResetTime(resetTime, b, b)
        savedData == LoadStepData(M)
        M1 == IF savedData # Null /\ savedData[1].timestamp < lastReset
              THEN [ExecuteReset(M, b) EXCEPT !.caught = lastReset]
              ELSE M
    IN  ScheduleReset(M1, 24 * 60 * 60 * 1000, b)

\* ResetTimer.start: a is the clock reading of calculateNextResetTime, b the
\* reading of Date.now() and of everything after it
Start(M, a, b) ==
    LET resetTime == GetResetTime(M)
        nextReset == CalculateNextResetTime(resetTime, a, a)
        lastReset == CalculateLastResetTime(resetTime, b, b)
        savedData == LoadStepData(M)
        M1 == IF savedData # Null /\ savedData[1].timestamp < lastReset
              THEN [ExecuteReset(M, b) EXCEPT !.caught = lastReset]
              ELSE M
    IN  ScheduleReset(M1, nextReset - b, b)

\* updateResetTime storing the time without running start()
UpdateResetTimeNoRestart(M, newResetTime, a, b) == SetResetTime(M, newResetTime)

\* updateResetTime running start() whatever setResetTime returned
UpdateResetTimeAlwaysStart(M, newResetTime, a, b) ==
    LET M1 == SetResetTime(M, newResetTime)
    IN  [Start(M1, a, b) EXCEPT !.ok = M1.ok]

\* updateResetTime zeroing the counter before it restarts the timer
UpdateResetTimeAndReset(M, newResetTime, a, b) ==
    LET M1 == SetResetTime(M, newResetTime)
    IN  IF M1.ok THEN [Start(Reset(M1, b), a, b) EXCEPT !.ok = TRUE] ELSE M1

\* ResetTimer.updateResetTime
UpdateResetTime(M, newResetTime, a, b) ==
    LET M1 == SetResetTime(M, newResetTime)
    IN  IF M1.ok THEN [Start(M1, a, b) EXCEPT !.ok = TRUE] ELSE M1

\* stop forgetting the handle without clearTimeout
StopWithoutClear(M) == [M EXCEPT !.timerId = NoTimer]

\* ResetTimer.stop
Stop(M) ==
    IF M.timerId # NoTimer
    THEN [M EXCEPT !.timers = ClearTimeout(M.timers, M.timerId),
                   !.timerId = NoTimer]
    ELSE M

\* the callback re-arming for the recomputed next boundary
TimerCallbackNextBoundary(M, tm, t) ==
    LET M1 == ExecuteReset([M EXCEPT !.timers = M.timers \ {tm}], t)
    IN  ScheduleReset(M1, CalculateNextResetTime(GetResetTime(M1), t, t) - t, t)

\* the callback scheduleReset hands to setTimeout, run for the entry tm
TimerCallback(M, tm, t) ==
    LET M1 == [M EXCEPT !.timers = M.timers \ {tm}]
    IN  ScheduleReset(ExecuteReset(M1, t), 24 * 60 * 60 * 1000, t)

\* ResetTimer.getNextResetTime
GetNextResetTime(M, t) == CalculateNextResetTime(GetResetTime(M), t, t)

----------------------------------------------------------------------------
(* The state machine                                                       *)

\* the record of an operation: its name, its argument, the value it
\* returned and the notifications it delivered to the observers
Event(op, arg, M) ==
    [op |-> op, arg |-> arg, ret |-> M.ok, notes |-> M.notes, seen |-> M.seen,
     resets |-> M.resets, threw |-> M.threw]

\* the program state after an operation that took the machine to M
Apply(M) ==
    /\ currentSteps' = M.currentSteps
    /\ lastStepTime' = M.lastStepTime
    /\ observers' = M.observers
    /\ lsStepData' = M.lsStepData
    /\ lsResetTime' = M.lsResetTime
    /\ lsHistory' = M.lsHistory
    /\ timerId' = M.timerId
    /\ timers' = M.timers
    /\ listening' = M.listening
    /\ adapter' = M.adapter
    /\ caught' = M.caught

Quiet == [notes |-> <<>>, seen |-> <<>>, resets |-> <<>>, ok |-> TRUE, threw |-> FALSE]

\* the readings the clock can give later in the handler that first read t:
\* the clock may move on by a millisecond between two reads
LaterReads(t) == {t} \cup ({t + 1} \cap Grid)

HistoryLen == Len(LoadHistory(Machine))
CanArchive == HistoryLen < MaxHistory
CanArm == Cardinality(timers) < MaxTimers - 1

Init ==
    /\ now = StartTime
    /\ lsStepData = Null
    /\ lsResetTime = Null
    /\ lsHistory = Null
    /\ phase = "closed"
    /\ currentSteps = 0
    /\ lastStepTime = 0
    /\ observers = <<>>
    /\ timerId = NoTimer
    /\ timers = {}
    /\ lsWritable = TRUE
    /\ lsReadable = TRUE
    /\ listening = FALSE
    /\ adapter = IdleAdapter
    /\ caught = 0
    /\ lastQualifying = Null
    /\ ev = Event("none", <<>>, Quiet)

\* the clock moves on to a later modelled instant
Tick ==
    /\ \E t \in Grid : t > now /\ now' = t
    /\ ev' = Event("tick", <<>>, Quiet)
    /\ UNCHANGED <<lsStepData, lsResetTime, lsHistory, phase, currentSteps,
                   lastStepTime, observers, timerId, timers,
                   lsWritable, lsReadable, listening, adapter, caught, lastQualifying>>

\* the clock moves on by a quarter of the debounce window
FineTick ==
    /\ now < StartTime + MaxFine * FineStep
    /\ now' = now + FineStep
    /\ ev' = Event("tick", <<>>, Quiet)
    /\ UNCHANGED <<lsStepData, lsResetTime, lsHistory, phase, currentSteps,
                   lastStepTime, observers, timerId, timers,
                   lsWritable, lsReadable, listening, adapter, caught, lastQualifying>>

\* the page is loaded and StepCounterApp.initialize runs: the constructors
\* (already in effect while the page is closed), StepCounter.initialize,
\* ResetTimer.start and UIController.initialize, which registers the display
\* observer; the event records the clock reading start() began with
AppInitialize ==
    /\ phase = "closed"
    /\ CanArchive
    /\ \E a \in LaterReads(now) : \E b \in LaterReads(a) :
         LET M1 == Initialize(Machine, now)
             M2 == Start(M1, a, b)
             M3 == AddObserver(M2, "ui")
         IN  /\ Apply(M3)
             /\ now' = b
             /\ ev' = Event("appInitialize",
                            [began |-> a, counted |-> M1.currentSteps,
                             stored |-> M1.lsStepData, history |-> M1.lsHistory,
                             listening |-> M1.listening],
                            M3)
    /\ phase' = "running"
    /\ UNCHANGED <<lsWritable, lsReadable, lastQualifying>>

\* the motion feed delivers a sample to StepCounter.onMotionDetected
SensorSample ==
    /\ phase = "running"
    /\ listening
    /\ currentSteps < MaxSteps
    /\ \E a \in AccelSamples :
         LET M1 == OnMotionDetected(Machine, a, now)
         IN  /\ Apply(M1)
             /\ ev' = Event("onMotionDetected",
                            [sample |-> a, elapsed |-> now - lastStepTime], M1)
             /\ lastQualifying' =
                    IF MagnitudeSq(a) > StepThresholdTenths * StepThresholdTenths
                    THEN Some([at |-> now,
                               counted |-> M1.currentSteps # currentSteps])
                    ELSE lastQualifying
    /\ UNCHANGED <<now, phase, lsWritable, lsReadable>>

\* the sensor button: StepCounter.startSensorListening; the platform may lack
\* the DeviceMotion API or the user may deny the permission
StartSensor ==
    /\ phase = "running"
    /\ \E available \in BOOLEAN : \E granted \in BOOLEAN :
         LET M1 == StartSensorListening(Machine, available, granted)
         IN  /\ Apply(M1)
             /\ ev' = Event("startSensorListening",
                            [available |-> available, granted |-> granted], M1)
    /\ UNCHANGED <<now, phase, lsWritable, lsReadable, lastQualifying>>

\* the manual-count button: StepCounter.incrementStep
ManualIncrement ==
    /\ phase = "running"
    /\ currentSteps < MaxManual
    /\ LET M1 == IncrementStep(Machine, now)
       IN  Apply(M1) /\ ev' = Event("incrementStep", <<>>, M1)
    /\ UNCHANGED <<now, phase, lsWritable, lsReadable, lastQualifying>>

\* StepCounter.reset called directly
DirectReset ==
    /\ phase = "running"
    /\ LET M1 == Reset(Machine, now)
       IN  Apply(M1) /\ ev' = Event("reset", currentSteps, M1)
    /\ UNCHANGED <<now, phase, lsWritable, lsReadable, lastQualifying>>

\* ResetTimer.start called on the running scheduler
StartAgain ==
    /\ phase = "running"
    /\ CanArchive /\ CanArm
    /\ \E b \in LaterReads(now) :
         LET M1 == Start(Machine, now, b)
         IN  Apply(M1) /\ now' = b /\ ev' = Event("start", <<>>, M1)
    /\ UNCHANGED <<phase, lsWritable, lsReadable, lastQualifying>>

\* ResetTimer.updateResetTime, as the settings form calls it
ChangeResetTime ==
    /\ phase = "running"
    /\ CanArchive /\ CanArm
    /\ \E time \in CandidateTimes : \E b \in LaterReads(now) :
         LET M1 == UpdateResetTime(Machine, time, now, b)
         IN  /\ Apply(M1)
             /\ now' = b
             /\ ev' = Event("updateResetTime",
                            [time |-> time, armed |-> timerId # NoTimer], M1)
    /\ UNCHANGED <<phase, lsWritable, lsReadable, lastQualifying>>

\* ResetTimer.scheduleReset called directly
ScheduleDirect ==
    /\ phase = "running"
    /\ CanArm
    /\ \E milliseconds \in {0, Hour, Day} :
         LET M1 == ScheduleReset(Machine, milliseconds, now)
         IN  /\ Apply(M1)
             /\ ev' = Event("scheduleReset",
                            [milliseconds |-> milliseconds,
                             pending |-> Cardinality(timers)], M1)
    /\ UNCHANGED <<now, phase, lsWritable, lsReadable, lastQualifying>>

\* localStorage.setItem starts or stops throwing (quota, private mode)
StorageFault ==
    /\ lsWritable' = ~lsWritable
    /\ ev' = Event("storageFault", <<>>, Quiet)
    /\ UNCHANGED <<now, lsStepData, lsResetTime, lsHistory, phase, currentSteps,
                   lastStepTime, observers, timerId, timers, lsReadable,
                   listening, adapter, caught, lastQualifying>>

\* ResetTimer.stop
StopTimer ==
    /\ phase = "running"
    /\ LET M1 == Stop(Machine)
       IN  Apply(M1) /\ ev' = Event("stop", [armed |-> timerId # NoTimer], M1)
    /\ UNCHANGED <<now, phase, lsWritable, lsReadable, lastQualifying>>

\* a pending setTimeout entry whose delay has elapsed runs its callback
WakeUp ==
    /\ phase = "running"
    /\ CanArchive /\ CanArm
    /\ \E tm \in timers :
         /\ now >= tm.due
         /\ LET M1 == TimerCallback(Machine, tm, now)
            IN  Apply(M1) /\ ev' = Event("wakeUp", <<>>, M1)
    /\ UNCHANGED <<now, phase, lsWritable, lsReadable, lastQualifying>>

\* StepCounter.addObserver
Subscribe ==
    /\ phase = "running"
    /\ Len(observers) < MaxObservers
    /\ LET M1 == AddObserver(Machine, "extra")
       IN  Apply(M1) /\ ev' = Event("addObserver", "extra", M1)
    /\ UNCHANGED <<now, phase, lsWritable, lsReadable, lastQualifying>>

\* StepCounter.removeObserver
Unsubscribe ==
    /\ phase = "running"
    /\ \E o \in {"ui", "extra"} :
         LET M1 == RemoveObserver(Machine, o)
         IN  Apply(M1) /\ ev' = Event("removeObserver", o, M1)
    /\ UNCHANGED <<now, phase, lsWritable, lsReadable, lastQualifying>>

\* StepCounterApp.shutdown on beforeunload; the page, its timers and its
\* objects go away, and the next load constructs StepCounter and ResetTimer
\* anew
Shutdown ==
    /\ phase = "running"
    /\ currentSteps' = 0
    /\ lastStepTime' = 0
    /\ observers' = <<>>
    /\ timerId' = NoTimer
    /\ timers' = {}
    /\ listening' = FALSE
    /\ adapter' = IdleAdapter
    /\ phase' = "closed"
    /\ lastQualifying' = Null
    /\ ev' = Event("shutdown", <<>>, Quiet)
    /\ UNCHANGED <<now, lsStepData, lsResetTime, lsHistory, lsWritable, lsReadable, caught>>

\* the application over days: the scheduler, the clock and the life cycle
Next ==
    \/ Tick
    \/ AppInitialize
    \/ ManualIncrement
    \/ StartAgain
    \/ ChangeResetTime
    \/ StopTimer
    \/ WakeUp
    \/ Shutdown

Spec == Init /\ [][Next]_vars

\* the scheduler with scheduleReset open to direct calls
NextTimer ==
    \/ Tick
    \/ AppInitialize
    \/ StartAgain
    \/ ChangeResetTime
    \/ ScheduleDirect
    \/ StopTimer
    \/ WakeUp
    \/ Shutdown

SpecTimer == Init /\ [][NextTimer]_vars

\* the settings form and the manual button with localStorage writes failing
\* now and then
NextFault ==
    \/ Tick
    \/ AppInitialize
    \/ ManualIncrement
    \/ ChangeResetTime
    \/ StopTimer
    \/ StorageFault

SpecFault == Init /\ [][NextFault]_vars

\* the step engine within one period: samples, observers and the debounce
NextEngine ==
    \/ FineTick
    \/ AppInitialize
    \/ StartSensor
    \/ SensorSample
    \/ ManualIncrement
    \/ DirectReset
    \/ Subscribe
    \/ Unsubscribe
    \/ Shutdown

SpecEngine == Init /\ [][NextEngine]_vars

\* StepCounter.addObserver with a callback that throws when it is called
SubscribeFaulty ==
    /\ phase = "running"
    /\ Len(observers) < MaxObservers
    /\ LET M1 == AddObserver(Machine, "faulty")
       IN  Apply(M1) /\ ev' = Event("addObserver", "faulty", M1)
    /\ UNCHANGED <<now, phase, lsWritable, lsReadable, lastQualifying>>

\* increments and resets with observers of both kinds registered
NextObservers ==
    \/ FineTick
    \/ AppInitialize
    \/ ManualIncrement
    \/ DirectReset
    \/ Subscribe
    \/ SubscribeFaulty
    \/ Unsubscribe

SpecObservers == Init /\ [][NextObservers]_vars

\* StepCounter.addObserver with a callback that changes the observer list
\* when it is called
SubscribeMutating ==
    /\ phase = "running"
    /\ Len(observers) < MaxObservers
    /\ \E o \in {"once", "evictor", "adder"} :
         /\ IndexOf(observers, o) = 0
         /\ LET M1 == AddObserver(Machine, o)
            IN  Apply(M1) /\ ev' = Event("addObserver", o, M1)
    /\ UNCHANGED <<now, phase, lsWritable, lsReadable, lastQualifying>>

\* increments and resets with observers that unsubscribe and subscribe
\* from inside their callbacks
NextMutate ==
    \/ FineTick
    \/ AppInitialize
    \/ ManualIncrement
    \/ DirectReset
    \/ Subscribe
    \/ SubscribeMutating
    \/ Unsubscribe

SpecMutate == Init /\ [][NextMutate]_vars

\* a startListening call runs up to its await; a call made while the
\* adapter is listening returns at once
BeginStartListening ==
    /\ phase = "running"
    /\ adapter.awaiting < MaxPending
    /\ Cardinality(adapter.handlers) + adapter.awaiting < MaxHandlers
    /\ \E available \in BOOLEAN :
         LET M1 == StartListeningUntilAwait(Machine, available)
         IN  /\ Apply(M1)
             /\ ev' = Event("startListening", [available |-> available], M1)
    /\ UNCHANGED <<now, phase, lsWritable, lsReadable, lastQualifying>>

\* the permission request of a suspended startListening call is answered
\* and the call runs on to its end
ResumeStartListening ==
    /\ phase = "running"
    /\ adapter.awaiting > 0
    /\ \E granted \in BOOLEAN :
         LET M1 == StartListeningAfterAwait(Machine, granted)
         IN  /\ Apply(M1)
             /\ ev' = Event("startListeningResumed", [granted |-> granted], M1)
    /\ UNCHANGED <<now, phase, lsWritable, lsReadable, lastQualifying>>

\* StepCounter.stopListening, which calls SensorAdapter.stopListening
StopSensor ==
    /\ phase = "running"
    /\ LET M1 == StopListening(Machine)
       IN  Apply(M1) /\ ev' = Event("stopListening", [listening |-> listening], M1)
    /\ UNCHANGED <<now, phase, lsWritable, lsReadable, lastQualifying>>

\* handleMotion run n times for one devicemotion event, once for each
\* registered handler; it hands the sample to the callback
\* (StepCounter.onMotionDetected) unless the callback is null
RECURSIVE HandleMotion(_, _, _, _)
HandleMotion(M, a, t, n) ==
    IF n = 0 \/ ~M.listening THEN M
    ELSE HandleMotion(OnMotionDetected(M, a, t), a, t, n - 1)

\* the platform dispatches a devicemotion event to the registered handlers;
\* the event records how many calls of the callback it made
MotionEvent ==
    /\ phase = "running"
    /\ currentSteps < MaxSteps
    /\ \E a \in AccelSamples :
         LET n == Cardinality(adapter.handlers)
             M1 == HandleMotion(Machine, a, now, n)
         IN  /\ Apply(M1)
             /\ ev' = Event("devicemotion",
                            [sample |-> a,
                             delivered |-> IF listening THEN n ELSE 0], M1)
    /\ UNCHANGED <<now, phase, lsWritable, lsReadable, lastQualifying>>

\* the sensor adapter with its calls interleaved: a startListening call is
\* suspended at its await while other calls and events run
NextSensor ==
    \/ FineTick
    \/ AppInitialize
    \/ BeginStartListening
    \/ ResumeStartListening
    \/ StopSensor
    \/ MotionEvent
    \/ Shutdown

SpecSensor == Init /\ [][NextSensor]_vars

\* the reset timer firing while localStorage writes fail now and then
NextResetFault ==
    \/ Tick
    \/ AppInitialize
    \/ ManualIncrement
    \/ WakeUp
    \/ Shutdown
    \/ StorageFault

SpecResetFault == Init /\ [][NextResetFault]_vars

\* sample callbacks and timer callbacks on the one event queue of the page:
\* each callback runs to completion before the next one starts
NextQueue ==
    \/ Tick
    \/ AppInitialize
    \/ StartSensor
    \/ SensorSample
    \/ WakeUp

SpecQueue == Init /\ [][NextQueue]_vars

\* the step engine with localStorage writes failing now and then
NextEngineFault ==
    \/ NextEngine
    \/ StorageFault

SpecEngineFault == Init /\ [][NextEngineFault]_vars

\* the display asks ResetTimer.getNextResetTime
ReadNextReset ==
    /\ phase = "running"
    /\ ev' = [Event("getNextResetTime", <<>>, Quiet) EXCEPT
                 !.ret = GetNextResetTime(Machine, now)]
    /\ UNCHANGED <<now, lsStepData, lsResetTime, lsHistory, phase, currentSteps,
                   lastStepTime, observers, timerId, timers, lsWritable,
                   lsReadable, listening, adapter, caught, lastQualifying>>

\* every operation of the counter and of the timer that could touch the
\* history, over the day
NextHistory ==
    \/ NextQueue
    \/ ManualIncrement
    \/ DirectReset
    \/ StopTimer
    \/ ReadNextReset

SpecHistory == Init /\ [][NextHistory]_vars

\* the internal count is overwritten from outside the class
ForceCount ==
    /\ phase = "running"
    /\ \E v \in {-2, -1} : currentSteps' = v /\ ev' = Event("forceCount", v, Quiet)
    /\ UNCHANGED <<now, lsStepData, lsResetTime, lsHistory, phase, lastStepTime,
                   observers, timerId, timers, lsWritable, lsReadable, listening, adapter, caught,
                   lastQualifying>>

\* the display reads StepCounter.getCurrentSteps
ReadCount ==
    /\ phase = "running"
    /\ ev' = [op |-> "getCurrentSteps", arg |-> currentSteps,
              ret |-> GetCurrentSteps(Machine), notes |-> <<>>, seen |-> <<>>,
               resets |-> <<>>, threw |-> FALSE]
    /\ UNCHANGED <<now, lsStepData, lsResetTime, lsHistory, phase, currentSteps,
                   lastStepTime, observers, timerId, timers, lsWritable, lsReadable, listening, adapter,
                   caught, lastQualifying>>

\* the step engine with its internal count open to corruption
NextCorrupt ==
    \/ NextEngine
    \/ ForceCount
    \/ ReadCount

SpecCorrupt == Init /\ [][NextCorrupt]_vars

----------------------------------------------------------------------------
(* StorageManager called directly: records, reset-time strings and history *)
(* entries are drawn from small sets that hold accepted and rejected       *)
(* values.                                                                 *)

T0730Short == <<"7", ":", "3", "0">>
T1260 == <<"1", "2", ":", "6", "0">>
T1500Long == <<"1", "5", ":", "0", "0", ":", "0", "0">>
EmptyString == <<>>

StorageTimes == ValidTimes \cup {T2359, T2400, T0730Short, T1260, T1500Long, EmptyString}

StepRecords == [steps : {-1, 0, 1, Infinity}, timestamp : {-1, 0, StartTime, Infinity}]

\* the entries offered to saveHistory: the next of a numbered series, and
\* one with a negative count
NextEntrySteps ==
    IF LoadHistory(Machine) = <<>> THEN 1
    ELSE LoadHistory(Machine)[Len(LoadHistory(Machine))].steps + 1

HistoryEntries ==
    {[steps |-> k, date |-> ToISOString(now)] : k \in {-1, NextEntrySteps}}

\* StorageManager.saveStepData called with a record
StorageSaveStepData ==
    /\ \E data \in StepRecords :
         LET M1 == SaveStepData(Machine, data)
         IN  Apply(M1) /\ ev' = Event("saveStepData", data, M1)
    /\ UNCHANGED <<now, phase, lsWritable, lsReadable, lastQualifying>>

\* StorageManager.setResetTime called with a string
StorageSetResetTime ==
    /\ \E time \in StorageTimes :
         LET M1 == SetResetTime(Machine, time)
         IN  Apply(M1) /\ ev' = Event("setResetTime", time, M1)
    /\ UNCHANGED <<now, phase, lsWritable, lsReadable, lastQualifying>>

\* StorageManager.saveHistory called with an entry
StorageSaveHistory ==
    /\ NextEntrySteps <= MaxSaves
    /\ \E entry \in HistoryEntries :
         LET M1 == SaveHistory(Machine, entry)
         IN  Apply(M1) /\ ev' = Event("saveHistory", entry, M1)
    /\ UNCHANGED <<now, phase, lsWritable, lsReadable, lastQualifying>>

NextStorage ==
    \/ StorageSaveStepData
    \/ StorageSetResetTime
    \/ StorageSaveHistory

SpecStorage == Init /\ [][NextStorage]_vars

----------------------------------------------------------------------------
(* Read failures: malformed items in localStorage and a getItem that       *)
(* throws.                                                                 *)

\* texts under stepCounter_currentData that are not the JSON of a record:
\* text that JSON.parse rejects, and objects whose steps or timestamp is
\* negative or null
MalformedStepData ==
    {<<"{">>,
     <<"steps", Some(-1), "timestamp", Some(0)>>,
     <<"steps", Some(1), "timestamp", Some(-1)>>,
     <<"steps", Null, "timestamp", Some(0)>>,
     <<"steps", Some(1), "timestamp", Null>>}

\* strings under stepCounter_resetTime outside the HH:MM grammar
MalformedResetTimes == {T2400, T0730Short, T1260}

\* texts under stepCounter_history that are not the JSON of an array of
\* entries: text that JSON.parse rejects, an entry with negative steps, an
\* entry without a date, and a good entry followed by a bad one
MalformedHistories ==
    {<< <<"{">> >>,
     << <<"steps", -1, "date", ToISOString(0)>> >>,
     << <<"steps", 1>> >>,
     << JSONStringifyEntry([steps |-> 1, date |-> ToISOString(0)]), <<"{">> >>}

\* something other than this version of the program writes localStorage
CorruptStorage ==
    /\ \/ /\ lsStepData' \in {Some(x) : x \in MalformedStepData \cup {EmptyString}}
          /\ UNCHANGED <<lsResetTime, lsHistory>>
       \/ /\ lsResetTime' \in {Some(x) : x \in MalformedResetTimes \cup {EmptyString}}
          /\ UNCHANGED <<lsStepData, lsHistory>>
       \/ /\ lsHistory' \in {Some(x) : x \in MalformedHistories}
          /\ UNCHANGED <<lsStepData, lsResetTime>>
    /\ ev' = Event("corruptStorage", <<>>, Quiet)
    /\ UNCHANGED <<now, phase, currentSteps, lastStepTime, observers, timerId,
                   timers, lsWritable, lsReadable, listening, adapter, caught,
                   lastQualifying>>

\* localStorage.getItem starts or stops throwing (storage access denied)
ReadFault ==
    /\ lsReadable' = ~lsReadable
    /\ ev' = Event("readFault", <<>>, Quiet)
    /\ UNCHANGED <<now, lsStepData, lsResetTime, lsHistory, phase, currentSteps,
                   lastStepTime, observers, timerId, timers, lsWritable,
                   listening, adapter, caught, lastQualifying>>

\* loadStepData, getResetTime and loadHistory are called
ReadStorage ==
    /\ ev' = [Event("readStorage", <<>>, Quiet) EXCEPT
                 !.ret = [stepData |-> LoadStepData(Machine),
                          resetTime |-> GetResetTime(Machine),
                          history |-> LoadHistory(Machine)]]
    /\ UNCHANGED <<now, lsStepData, lsResetTime, lsHistory, phase, currentSteps,
                   lastStepTime, observers, timerId, timers, lsWritable,
                   lsReadable, listening, adapter, caught, lastQualifying>>

\* the application over a localStorage that holds malformed items or cannot
\* be read
NextRead ==
    \/ AppInitialize
    \/ ManualIncrement
    \/ Shutdown
    \/ CorruptStorage
    \/ ReadFault
    \/ ReadStorage

SpecRead == Init /\ [][NextRead]_vars

----------------------------------------------------------------------------
(* The boundary calculations as pure functions: the inputs are drawn in    *)
(* the initial state and one action applies the three functions.           *)

BoundaryTimes == ValidTimes \cup {T0230, T2359}

\* every full hour of the modelled days, and the millisecond before it
BoundaryInstants ==
    LET hours == {k * Hour : k \in 0..(24 * (MaxDay + 1))}
    IN  {t \in hours \cup {h - 1 : h \in hours} \cup Grid : t >= 0 /\ t <= EndTime}

InitBoundary ==
    /\ now \in BoundaryInstants
    /\ lsResetTime \in {Some(r) : r \in BoundaryTimes}
    /\ lsStepData = Null
    /\ lsHistory = Null
    /\ phase = "closed"
    /\ currentSteps = 0
    /\ lastStepTime = 0
    /\ observers = <<>>
    /\ timerId = NoTimer
    /\ timers = {}
    /\ lsWritable = TRUE
    /\ lsReadable = TRUE
    /\ listening = FALSE
    /\ adapter = IdleAdapter
    /\ caught = 0
    /\ lastQualifying = Null
    /\ ev = Event("none", <<>>, Quiet)

\* calculateNextResetTime and the two calculateLastResetTime are called with
\* the stored reset time; n2 is the second clock reading of each call
ComputeBoundaries ==
    /\ ev.op = "none"
    /\ \E n2 \in {now, now + 1} :
         ev' = [op |-> "boundaries", arg |-> <<now, n2>>,
                ret |-> [next |-> CalculateNextResetTime(GetResetTime(Machine), now, n2),
                         last |-> CalculateLastResetTime(GetResetTime(Machine), now, n2),
                         lastOfCounter |->
                             StepCounterCalculateLastResetTime(GetResetTime(Machine), now, n2)],
                notes |-> <<>>, seen |-> <<>>,
                resets |-> <<>>, threw |-> FALSE]
    /\ UNCHANGED <<now, lsStepData, lsResetTime, lsHistory, phase, currentSteps,
                   lastStepTime, observers, timerId, timers, lsWritable, lsReadable, listening, adapter,
                   caught, lastQualifying>>

SpecBoundary == InitBoundary /\ [][ComputeBoundaries]_vars

\* the timestamps given to isCurrentPeriod: every boundary of the modelled
\* days, the millisecond before it and the millisecond after it
PeriodTimestamps ==
    {b + k : b \in {BoundaryOn(d, r) : d \in 0..(MaxDay + 1), r \in BoundaryTimes},
             k \in {-1, 0, 1}}

\* StepCounter.isCurrentPeriod is called with a timestamp
CheckPeriod ==
    /\ ev.op = "none"
    /\ \E timestamp \in PeriodTimestamps :
         ev' = [Event("isCurrentPeriod", [timestamp |-> timestamp], Quiet) EXCEPT
                  !.ret = IsCurrentPeriod(Machine, timestamp, now)]
    /\ UNCHANGED <<now, lsStepData, lsResetTime, lsHistory, phase, currentSteps,
                   lastStepTime, observers, timerId, timers, lsWritable,
                   lsReadable, listening, adapter, caught, lastQualifying>>

SpecPeriod == InitBoundary /\ [][CheckPeriod]_vars

\* a record is persisted and, at one instant, StepCounter.initialize and
\* ResetTimer.start are each run on it; the event records whether the first
\* restored the count and whether the second ran the catch-up reset
CheckEligibility ==
    /\ ev.op = "none"
    /\ \E steps \in 1..MaxSteps : \E timestamp \in PeriodTimestamps :
         LET data == [steps |-> steps, timestamp |-> timestamp]
             M0 == SaveStepData(Machine, data)
         IN  /\ M0.ok
             /\ ev' = [Event("eligibility", data, Quiet) EXCEPT
                         !.ret = [restored |->
                                      Initialize(M0, now).currentSteps = steps,
                                  caughtUp |->
                                      Start(M0, now, now).resets # <<>>]]
    /\ UNCHANGED <<now, lsStepData, lsResetTime, lsHistory, phase, currentSteps,
                   lastStepTime, observers, timerId, timers, lsWritable,
                   lsReadable, listening, adapter, caught, lastQualifying>>

SpecEligibility == InitBoundary /\ [][CheckEligibility]_vars

----------------------------------------------------------------------------
(* Properties of the step engine (SpecEngine, SpecCorrupt)                 *)

Threshold2 == StepThresholdTenths * StepThresholdTenths

\* this step delivers a sample to onMotionDetected
SampleStep == ev'.op = "onMotionDetected"
Qualifying(a) == MagnitudeSq(a) > Threshold2
Counted == currentSteps' # currentSteps

\* C1: one call of onMotionDetected raises the count by exactly 1 iff the
\* magnitude is strictly over the threshold and at least minStepInterval has
\* passed since lastStepTime; in every other case the count is unchanged.
C1_ThresholdAndInterval ==
    [][SampleStep =>
        IF Qualifying(ev'.arg.sample) /\ now - lastStepTime >= MinStepInterval
        THEN Max(0, currentSteps') = Max(0, currentSteps) + 1
        ELSE Max(0, currentSteps') = Max(0, currentSteps)]_vars

\* C1 witness: a sample over the threshold is counted when exactly
\* minStepInterval has passed since the step before it
C1_Witness ==
    /\ ev.op = "onMotionDetected"
    /\ Qualifying(ev.arg.sample)
    /\ ev.arg.elapsed = MinStepInterval
    /\ lastStepTime = now
    /\ currentSteps = 2

\* this step delivers a qualifying sample less than minStepInterval after the
\* qualifying sample before it
CloseQualifyingPair ==
    /\ SampleStep
    /\ Qualifying(ev'.arg.sample)
    /\ lastQualifying # Null
    /\ now - lastQualifying[1].at < MinStepInterval

\* C2 as stated: two qualifying samples delivered less than minStepInterval
\* apart produce exactly one increment, and two consecutive accepted steps
\* are at least minStepInterval apart.
C2_Original ==
    [][/\ CloseQualifyingPair => (lastQualifying[1].counted # Counted)
       /\ (SampleStep /\ Counted) => now - lastStepTime >= MinStepInterval]_vars

\* C2 amended: two qualifying samples delivered less than minStepInterval
\* apart produce at most one increment (exactly one when the first of them
\* is counted, none when both fall inside the window of an earlier accepted
\* step), and two consecutive accepted steps are at least minStepInterval
\* apart.
C2_Debounce ==
    [][/\ CloseQualifyingPair => ~(lastQualifying[1].counted /\ Counted)
       /\ (SampleStep /\ Counted) => now - lastStepTime >= MinStepInterval]_vars

\* C2 witness: the first of two close qualifying samples was counted and the
\* second was not
C2_Witness ==
    /\ ev.op = "onMotionDetected"
    /\ Qualifying(ev.arg.sample)
    /\ ev.arg.elapsed > 0 /\ ev.arg.elapsed < MinStepInterval
    /\ lastQualifying = Some([at |-> now, counted |-> FALSE])
    /\ lastStepTime = now - ev.arg.elapsed
    /\ currentSteps = 1

\* C3: getCurrentSteps() returns max(0, currentSteps), a value >= 0, after
\* any sequence of operations and after the internal count was forced
\* negative.
C3_NonNegative ==
    ev.op = "getCurrentSteps" =>
        /\ ev.ret >= 0
        /\ ev.ret = (IF ev.arg < 0 THEN 0 ELSE ev.arg)

\* C3 witness: the count is read while the internal field is negative
C3_Witness == ev.op = "getCurrentSteps" /\ ev.arg < 0 /\ ev.ret = 0

\* C4: reset() sets the observable count to 0 whatever it was, persists the
\* record {steps: 0, timestamp: now} and notifies every observer.
C4_Reset ==
    [][ev'.op = "reset" =>
        /\ Max(0, currentSteps') = 0
        /\ lsStepData' = Some(JSONStringifyStepData([steps |-> 0, timestamp |-> now]))
        /\ ev'.notes = [i \in 1..Len(observers) |-> <<observers[i], 0>>]]_vars

\* C4 witness: reset() ran on a positive count with two observers registered
C4_Witness ==
    /\ ev.op = "reset" /\ ev.arg > 0
    /\ currentSteps = 0
    /\ Len(observers) = 2 /\ Len(ev.notes) = 2
    /\ lsStepData = Some(JSONStringifyStepData([steps |-> 0, timestamp |-> now]))

----------------------------------------------------------------------------
(* Properties of the scheduler (Spec)                                      *)

HistoryOf(item) == LoadHistory([lsHistory |-> item, lsReadable |-> TRUE])
StoredOf(item) == LoadStepData([lsStepData |-> item, lsReadable |-> TRUE])
LastEntry(item) == HistoryOf(item)[Len(HistoryOf(item))]

\* this step runs ResetTimer.start
StartStep ==
    \/ ev'.op \in {"start", "appInitialize"}
    \/ ev'.op = "updateResetTime" /\ ev'.ret

\* the machine as start() finds it in this step
BeforeStart ==
    IF ev'.op = "appInitialize" THEN Initialize(Machine, now)
    ELSE IF ev'.op = "updateResetTime" THEN SetResetTime(Machine, ev'.arg.time)
    ELSE Machine

\* the instant start() began in this step
StartBegan == IF ev'.op = "appInitialize" THEN ev'.arg.began ELSE now

\* the record start() loads is older than the last boundary
FindsStaleRecord ==
    \E record \in {LoadStepData(BeforeStart)} :
        /\ record # Null
        /\ record[1].timestamp <
              CalculateLastResetTime(GetResetTime(BeforeStart), now', now')

\* C5: every executeReset() appends one history entry whose steps is
\* getCurrentSteps() as it was immediately before the reset.
C5_HistoryOnReset ==
    [][LET k == Len(ev'.resets)
       IN  /\ HistoryOf(lsHistory') =
                 SliceLast(HistoryOf(lsHistory) \o
                           [i \in 1..k |-> [steps |-> ev'.resets[i],
                                            date |-> ToISOString(now')]],
                           HistoryCap)
           /\ ev'.op = "wakeUp" => k = 1
           /\ (k >= 1 /\ ev'.op \in {"wakeUp", "start", "updateResetTime"})
                 => ev'.resets[1] = Max(0, currentSteps)
           /\ (k >= 1 /\ ev'.op = "appInitialize")
                 => ev'.resets[1] = Max(0, Initialize(Machine, now).currentSteps)]_vars

\* C5 witness: the wake-up archived a count of 1 and zeroed the counter
C5_Witness ==
    /\ ev.op = "wakeUp" /\ ev.resets = <<1>>
    /\ LastEntry(lsHistory).steps = 1
    /\ currentSteps = 0

\* C6: when start() finds the persisted record older than the last boundary
\* it resets and archives once, at once, and no start() call does so again
\* for the same boundary.
C6_CatchUpOnce ==
    [][StartStep =>
        \E record \in {LoadStepData(BeforeStart)} :
        \E lastBoundary \in {CalculateLastResetTime(GetResetTime(BeforeStart),
                                                    now', now')} :
            IF record # Null /\ record[1].timestamp < lastBoundary
            THEN /\ Len(ev'.resets) = 1
                 /\ Len(HistoryOf(lsHistory')) = Len(HistoryOf(lsHistory)) + 1
                 /\ currentSteps' = 0
                 /\ caught' = lastBoundary
                 /\ caught' > caught
            ELSE Len(ev'.resets) = 0]_vars

\* C6 witness: a later start() finds the boundary already caught up
C6_Witness ==
    /\ ev.op = "start" /\ ev.resets = <<>>
    /\ caught = CalculateLastResetTime(GetResetTime(Machine), now, now)

C8_Original ==
    [][(/\ ev'.op = "appInitialize"
        /\ StoredOf(lsStepData) # Null
        /\ StoredOf(lsStepData)[1].timestamp <
              CalculateLastResetTime(GetResetTime(Machine), now, now))
       => /\ HistoryOf(lsHistory') =
                Append(HistoryOf(lsHistory),
                       [steps |-> StoredOf(lsStepData)[1].steps,
                        date |-> ToISOString(now')])
          /\ currentSteps' = 0]_vars

\* C11: after any sequence of start(), updateResetTime(), scheduleReset(),
\* stop() calls and wake-up firings at most one reset wake-up is pending, and
\* it is the one the scheduler holds: a cancelled or superseded wake-up is
\* gone and cannot fire.
C11_SingleWakeUp ==
    /\ Cardinality(timers) <= 1
    /\ \A tm \in timers : tm.id = timerId

\* C11 witness: scheduleReset() was called while a wake-up was pending, and
\* one wake-up is pending after it
C11_Witness ==
    /\ ev.op = "scheduleReset" /\ ev.arg.pending = 1
    /\ Cardinality(timers) = 1

\* C12: when the pending wake-up fires, executeReset() runs once and the
\* scheduler holds a new wake-up due exactly 24 hours after the firing.
C12_RearmAfterFiring ==
    [][ev'.op = "wakeUp" =>
        /\ Len(ev'.resets) = 1
        /\ currentSteps' = 0
        /\ timerId' # NoTimer
        /\ timers' = {[id |-> timerId', due |-> now + Day]}]_vars

\* C12 witness: a wake-up fired and armed the next one 24 hours after the
\* firing, at an instant that is not the next boundary of the reset time
C12_Witness ==
    /\ ev.op = "wakeUp" /\ Len(ev.resets) = 1
    /\ timers = {[id |-> timerId, due |-> now + Day]}
    /\ CalculateNextResetTime(GetResetTime(Machine), now, now) # now + Day

\* this step is a call of updateResetTime with a valid time while
\* localStorage accepts writes
UpdateSucceeds ==
    /\ ev'.op = "updateResetTime"
    /\ IsValidResetTime(ev'.arg.time)
    /\ lsWritable

\* this step is a call of updateResetTime with an invalid time or while
\* localStorage rejects writes
UpdateFails ==
    /\ ev'.op = "updateResetTime"
    /\ ~IsValidResetTime(ev'.arg.time) \/ ~lsWritable

\* C13: updateResetTime(t) with a valid t whose write succeeds returns true,
\* makes getResetTime() return t, runs start() with its catch-up check
\* against the new boundary, and leaves one wake-up armed for
\* nextBoundary(t, now), whether the scheduler was stopped or armed.
C13_UpdateResetTime ==
    [][UpdateSucceeds =>
        /\ ev'.ret = TRUE
        /\ GetResetTime([lsResetTime |-> lsResetTime', lsReadable |-> TRUE]) = ev'.arg.time
        /\ Len(ev'.resets) =
              (IF /\ StoredOf(lsStepData) # Null
                  /\ StoredOf(lsStepData)[1].timestamp <
                        CalculateLastResetTime(ev'.arg.time, now', now')
               THEN 1 ELSE 0)
        /\ timerId' # NoTimer
        /\ timers' = {[id |-> timerId',
                       due |-> CalculateNextResetTime(ev'.arg.time, now, now)]}]_vars

\* C13 witness: updateResetTime("15:00") on a stopped scheduler armed the
\* wake-up for the next 15:00 and its catch-up check archived the count
C13_Witness ==
    /\ ev.op = "updateResetTime" /\ ev.ret = TRUE /\ ~ev.arg.armed
    /\ ev.arg.time = T1500
    /\ Len(ev.resets) = 1
    /\ timers = {[id |-> timerId, due |-> CalculateNextResetTime(T1500, now, now)]}

\* C14: when updateResetTime(t) fails (t is not valid HH:MM, or the write
\* fails) it returns false and changes nothing: the stored reset time, the
\* pending wake-up, the step count and the history are as before the call.
C14_FailedUpdate ==
    [][UpdateFails =>
        /\ ev'.ret = FALSE
        /\ UNCHANGED <<lsResetTime, timerId, timers, currentSteps, lsStepData,
                       lsHistory>>]_vars

\* C14 witness: a valid time was rejected because the write failed, with a
\* wake-up pending and a count of 1
C14_Witness ==
    /\ ev.op = "updateResetTime" /\ ev.ret = FALSE
    /\ IsValidResetTime(ev.arg.time)
    /\ ev.arg.time # GetResetTime(Machine)
    /\ timers # {} /\ currentSteps = 1

\* C15: stop() cancels the pending wake-up and leaves timerId null, a second
\* stop() changes nothing, and while the scheduler is stopped no wake-up is
\* pending, so the timer changes neither the count nor the history until
\* start() or a successful updateResetTime() arms it again.
C15_Stop ==
    [][/\ ev'.op = "stop" =>
            /\ timerId' = NoTimer /\ timers' = {}
            /\ Stop(Stop(Machine)) = Stop(Machine)
            /\ UNCHANGED <<currentSteps, lsStepData, lsHistory, lsResetTime>>
       /\ timerId = NoTimer =>
            /\ timers = {}
            /\ ev'.op # "wakeUp"
            /\ timerId' # NoTimer =>
                  \/ ev'.op \in {"start", "appInitialize"}
                  \/ ev'.op = "updateResetTime" /\ ev'.ret]_vars

\* C15 witness: stop() was called a second time, at an instant at which the
\* cancelled wake-up would have been due
C15_Witness ==
    /\ ev.op = "stop" /\ ~ev.arg.armed
    /\ timerId = NoTimer /\ timers = {}
    /\ now = CalculateLastResetTime(GetResetTime(Machine), now, now)
    /\ caught # now
    /\ phase = "running"

\* C19: initialize() with no stored record, or with one whose timestamp is
\* before lastBoundary(resetTime, now), leaves the count 0 and the record
\* {steps: 0, timestamp: now} stored; otherwise it leaves the count equal to
\* the stored steps and writes nothing.
C19_Initialize ==
    [][ev'.op = "appInitialize" =>
        LET saved == StoredOf(lsStepData)
            lastBoundary == CalculateLastResetTime(GetResetTime(Machine), now, now)
        IN  IF saved = Null \/ saved[1].timestamp < lastBoundary
            THEN /\ ev'.arg.counted = 0
                 /\ StoredOf(ev'.arg.stored) = Some([steps |-> 0, timestamp |-> now])
            ELSE /\ ev'.arg.counted = saved[1].steps
                 /\ ev'.arg.stored = lsStepData]_vars

\* C19 witness: the application was opened again within the period and
\* initialize() restored the stored count of 1
C19_Witness ==
    /\ ev.op = "appInitialize"
    /\ ev.arg.counted = 1
    /\ StoredOf(ev.arg.stored) # Null
    /\ StoredOf(ev.arg.stored)[1].timestamp < now

----------------------------------------------------------------------------
(* Properties of the motion feed (SpecEngine)                              *)

AcceptedSample ==
    /\ SampleStep
    /\ Qualifying(ev'.arg.sample)
    /\ now - lastStepTime >= MinStepInterval

\* this step delivers a sample that isStep rejects
RejectedSample ==
    /\ SampleStep
    /\ ~Qualifying(ev'.arg.sample) \/ now - lastStepTime < MinStepInterval

\* C21: an accepted sample raises the count by 1, sets lastStepTime to now,
\* stores the record {steps: new count, timestamp: now} and then calls each
\* registered observer once, in registration order, with the new count;
\* each observer is called with the record already stored and lastStepTime
\* already set, and the stored steps equals the count after the step.
C21_AcceptedSample ==
    [][AcceptedSample =>
        /\ currentSteps' = currentSteps + 1
        /\ lastStepTime' = now
        /\ lsStepData' = Some(JSONStringifyStepData(
                               [steps |-> currentSteps + 1, timestamp |-> now]))
        /\ StoredOf(lsStepData')[1].steps = currentSteps'
        /\ observers' = observers
        /\ ev'.notes = [i \in 1..Len(observers) |-> <<observers[i], currentSteps + 1>>]
        /\ Len(ev'.seen) = Len(observers)
        /\ \A i \in 1..Len(observers) :
              /\ ev'.seen[i].observer = observers[i]
              /\ ev'.seen[i].stored = lsStepData'
              /\ ev'.seen[i].lastStepTime = now]_vars

\* C21 witness: the second accepted sample was stored and two observers
\* were called with 2
C21_Witness ==
    /\ ev.op = "onMotionDetected"
    /\ currentSteps = 2
    /\ Len(ev.notes) = 2
    /\ ev.notes[2][2] = 2
    /\ ev.seen[1].stored = lsStepData

\* C22: a rejected sample (magnitude <= threshold, or inside the debounce
\* window) leaves the count, lastStepTime, the stored record and the history
\* unchanged and calls no observer.
C22_RejectedSample ==
    [][RejectedSample =>
        /\ UNCHANGED <<currentSteps, lastStepTime, lsStepData, lsHistory>>
        /\ ev'.notes = <<>>]_vars

\* C22 witness: a sample over the threshold was rejected inside the debounce
\* window of the first step, with an observer registered
C22_Witness ==
    /\ ev.op = "onMotionDetected"
    /\ Qualifying(ev.arg.sample)
    /\ ev.arg.elapsed > 0 /\ ev.arg.elapsed < MinStepInterval
    /\ currentSteps = 1
    /\ lastStepTime = now - ev.arg.elapsed
    /\ Len(observers) >= 1
    /\ ev.notes = <<>>

\* C23: when an observer throws during a notification, the incrementStep or
\* reset that notified still completes without throwing (count updated,
\* record stored), and every registered observer, those after the throwing
\* one included, is called once with the new count.
C23_ObserverIsolation ==
    [][ev'.op \in {"incrementStep", "reset"} =>
        /\ ~ev'.threw
        /\ currentSteps' = (IF ev'.op = "reset" THEN 0 ELSE currentSteps + 1)
        /\ StoredOf(lsStepData') = Some([steps |-> currentSteps', timestamp |-> now])
        /\ ev'.notes = [i \in 1..Len(observers) |-> <<observers[i], currentSteps'>>]]_vars

\* C23 witness: the first observer threw during the notification of an
\* increment and the observer registered after it was called with 1
C23_Witness ==
    /\ ev.op = "incrementStep" /\ ~ev.threw
    /\ observers = <<"faulty", "extra">>
    /\ ev.notes = << <<"faulty", 1>>, <<"extra", 1>> >>
    /\ currentSteps = 1

\* C24: in every interleaving of sample callbacks and timer callbacks, the
\* reset leaves the count at exactly 0, the count stays 0 until a sample is
\* accepted, and the first sample accepted after the reset makes it 1.
C24_ResetBetweenSamples ==
    [][/\ ev'.op = "wakeUp" =>
            /\ currentSteps' = 0
            /\ StoredOf(lsStepData') = Some([steps |-> 0, timestamp |-> now])
       /\ ev'.op = "tick" => currentSteps' = currentSteps
       /\ RejectedSample => currentSteps' = currentSteps
       /\ AcceptedSample /\ currentSteps = 0 => currentSteps' = 1
       /\ SampleStep /\ ev.op = "wakeUp" =>
            currentSteps' = (IF AcceptedSample THEN 1 ELSE 0)]_vars

\* C24 witness: a step was counted, the reset archived it, and the sample
\* delivered right after the reset made the count 1
C24_Witness ==
    /\ ev.op = "onMotionDetected"
    /\ currentSteps = 1
    /\ lastStepTime = now
    /\ Len(HistoryOf(lsHistory)) = 1
    /\ HistoryOf(lsHistory)[1].steps = 1
    /\ HistoryOf(lsHistory)[1].date = ToISOString(now)

\* C28: every onMotionDetected or incrementStep call changes
\* getCurrentSteps() by 0 or +1, incrementStep by exactly +1 (so k of them
\* from n give n + k), and getCurrentSteps() decreases only in reset(), in
\* initialize() or when the page and its counter are discarded.
C28_Monotonic ==
    [][LET before == GetCurrentSteps(Machine)
           after == Max(0, currentSteps')
       IN  /\ SampleStep => after = before + (IF AcceptedSample THEN 1 ELSE 0)
           /\ ev'.op = "incrementStep" => after = before + 1
           /\ after < before => ev'.op \in {"reset", "appInitialize", "shutdown"}]_vars

\* C28 witness: two increments from 0 gave 2
C28_Witness ==
    /\ ev.op = "onMotionDetected"
    /\ lastStepTime = now
    /\ GetCurrentSteps(Machine) = 2
    /\ StoredOf(lsStepData) = Some([steps |-> 2, timestamp |-> now])

\* C29: initialize(), onMotionDetected(), incrementStep(), StepCounter.reset()
\* called directly, stop() and getNextResetTime() leave the stored history
\* as it is; the history changes only in a step that ran executeReset(), by
\* one appended entry.
C29_HistoryWriters ==
    [][/\ ev'.op \in {"onMotionDetected", "incrementStep", "reset", "stop",
                      "getNextResetTime"} => lsHistory' = lsHistory
       /\ ev'.op = "appInitialize" => ev'.arg.history = lsHistory
       /\ lsHistory' # lsHistory =>
            /\ Len(ev'.resets) = 1
            /\ HistoryOf(lsHistory') =
                  Append(HistoryOf(lsHistory),
                         [steps |-> ev'.resets[1], date |-> ToISOString(now')])]_vars

\* C29 witness: StepCounter.reset() was called directly with a count of 1
\* and the history still holds only the entry of the earlier timer reset,
\* which archived 0
C29_Witness ==
    /\ ev.op = "reset" /\ ev.arg = 1
    /\ currentSteps = 0
    /\ Len(HistoryOf(lsHistory)) = 1
    /\ HistoryOf(lsHistory)[1].steps = 0

\* C30: start() runs no reset and appends no history entry when no record
\* is stored or the stored record's timestamp is >= lastBoundary(resetTime,
\* now); with or without catch-up it ends with exactly one wake-up pending,
\* due at nextBoundary(resetTime, now).
C30_StartWithoutCatchUp ==
    [][StartStep =>
        /\ ~FindsStaleRecord =>
              /\ ev'.resets = <<>>
              /\ lsHistory' = lsHistory
              /\ currentSteps' = BeforeStart.currentSteps
              /\ lsStepData' = BeforeStart.lsStepData
        /\ timerId' # NoTimer
        /\ timers' = {[id |-> timerId',
                       due |-> CalculateNextResetTime(GetResetTime(BeforeStart),
                                                      StartBegan, StartBegan)]}]_vars

\* C30 witness: the application started while writes failed, so start()
\* found no record: it ran no reset and armed the wake-up
C30_Witness ==
    /\ ev.op = "appInitialize"
    /\ ev.arg.stored = Null
    /\ ev.resets = <<>>
    /\ lsHistory = Null
    /\ Cardinality(timers) = 1
    /\ \A tm \in timers : tm.id = timerId /\ tm.due > now

\* this step is an increment (an accepted sample or incrementStep)
IncrementOp == AcceptedSample \/ ev'.op = "incrementStep"

\* C25: whether the write succeeds or fails, an increment raises the
\* in-memory count by 1, a reset makes it 0, and the observers are called
\* with the new count; a failed write leaves the stored record as it was,
\* and after every increment or reset whose write succeeds the stored steps
\* equals the in-memory count.
C25_FailedWrite ==
    [][IncrementOp \/ ev'.op = "reset" =>
        /\ currentSteps' = (IF ev'.op = "reset" THEN 0 ELSE currentSteps + 1)
        /\ ev'.notes = [i \in 1..Len(observers) |-> <<observers[i], currentSteps'>>]
        /\ ~ev'.threw
        /\ ev'.ret = lsWritable
        /\ IF lsWritable
           THEN StoredOf(lsStepData') = Some([steps |-> currentSteps', timestamp |-> now])
           ELSE lsStepData' = lsStepData]_vars

\* C25 witness: the write of the second step failed: the count is 2, the
\* observer was called with 2 and the stored record still says 1
C25_Witness ==
    /\ ev.op = "onMotionDetected" /\ ~ev.ret
    /\ ~lsWritable
    /\ currentSteps = 2
    /\ ev.notes # <<>> /\ ev.notes[1][2] = 2
    /\ StoredOf(lsStepData) # Null
    /\ StoredOf(lsStepData)[1].steps = 1

----------------------------------------------------------------------------
(* Properties of the observer list under mutation (SpecMutate)             *)

\* how often o stands in the list seq
Occurrences(seq, o) == Cardinality({i \in 1..Len(seq) : seq[i] = o})

\* how often the step called observer o
CallsOf(o) == Cardinality({i \in 1..Len(ev'.notes) : ev'.notes[i][1] = o})

\* C31 as stated: in every notification (of an increment or a reset), every
\* observer that was registered before it and was not removed during it is
\* called exactly once, whatever the callbacks do to the observer list; the
\* same then holds for each later notification and the observers still
\* registered before it.
C31_Original ==
    [][ev'.op \in {"incrementStep", "reset"} =>
         \A i \in 1..Len(observers) :
            LET o == observers[i]
            IN  Occurrences(observers', o) >= Occurrences(observers, o) =>
                    CallsOf(o) = Occurrences(observers, o)]_vars

----------------------------------------------------------------------------
(* Properties of the storage manager (SpecStorage)                         *)

\* C16 as stated: for every record with steps a non-negative integer and
\* timestamp >= 0, saveStepData returns true and a following loadStepData
\* returns a record with the same steps and timestamp.
C16_Original ==
    [][/\ ev'.op = "saveStepData"
       /\ ev'.arg.steps >= 0 /\ ev'.arg.steps # Infinity
       /\ ev'.arg.timestamp >= 0
       => /\ ev'.ret = TRUE
          /\ StoredOf(lsStepData') = Some(ev'.arg)]_vars

\* the decimal digit n as a character
DigitChar(n) == CHOOSE c \in Digits : DigitVal(c) = n

\* the strings of the HH:MM grammar: hours 00-23, minutes 00-59, two digits
\* each
AllHHMM ==
    {<<DigitChar(h \div 10), DigitChar(h % 10), ":",
       DigitChar(m \div 10), DigitChar(m % 10)>> : h \in 0..23, m \in 0..59}

\* C17: setResetTime(s) returns true iff s is a string of the HH:MM grammar;
\* after a successful call getResetTime() returns s, after a rejected call
\* getResetTime() returns what it returned before and the stored value is
\* untouched; the stored value is always a string of the grammar.
C17_SetResetTime ==
    [][/\ ev'.op = "setResetTime" =>
            /\ ev'.ret = (ev'.arg \in AllHHMM)
            /\ ev'.ret => GetResetTime([lsResetTime |-> lsResetTime', lsReadable |-> TRUE]) = ev'.arg
            /\ ~ev'.ret =>
                  /\ lsResetTime' = lsResetTime
                  /\ GetResetTime([lsResetTime |-> lsResetTime', lsReadable |-> TRUE]) = GetResetTime(Machine)
       /\ lsResetTime' = Null \/ lsResetTime'[1] \in AllHHMM]_vars

\* C17 witness: "24:00" was rejected after "15:00" had been stored, and
\* getResetTime() still returns "15:00"
C17_Witness ==
    /\ ev.op = "setResetTime" /\ ev.arg = T2400 /\ ~ev.ret
    /\ GetResetTime(Machine) = T1500

\* C18: each successful saveHistory(e) leaves loadHistory() holding the
\* previous entries in their order followed by e, without the oldest entry
\* when that makes more than 30; so after n successful calls loadHistory()
\* is the last min(n, 30) saved entries in the order saved, and the stored
\* history never holds more than 30 entries.
C18_HistoryCap ==
    [][/\ ev'.op = "saveHistory" /\ ev'.ret =>
            LET h == HistoryOf(lsHistory)
                h2 == HistoryOf(lsHistory')
                n == Len(h) + 1
                m == IF n <= 30 THEN n ELSE 30
            IN  /\ Len(h2) = m
                /\ h2[m] = ev'.arg
                /\ \A i \in 1..(m - 1) : h2[i] = h[i + n - m]
       /\ lsHistory' # Null => Len(lsHistory'[1]) <= 30]_vars

\* C18 witness: the 32nd entry was saved; the history holds entries 3 to 32
C18_Witness ==
    /\ ev.op = "saveHistory" /\ ev.ret
    /\ Len(HistoryOf(lsHistory)) = 30
    /\ HistoryOf(lsHistory)[1].steps = 3
    /\ HistoryOf(lsHistory)[30].steps = 32

\* C27: isCurrentPeriod(timestamp) is true iff timestamp >=
\* lastBoundary(configured reset time, now); a timestamp equal to the last
\* boundary is inside the current period.
C27_IsCurrentPeriod ==
    ev.op = "isCurrentPeriod" =>
        LET lastBoundary == CalculateLastResetTime(GetResetTime(Machine), now, now)
        IN  /\ ev.ret = (ev.arg.timestamp >= lastBoundary)
            /\ ev.arg.timestamp = lastBoundary => ev.ret
            /\ ev.arg.timestamp = lastBoundary - 1 => ~ev.ret

\* C27 witness: the timestamp is the last boundary, which lies before now,
\* and isCurrentPeriod returned true
C27_Witness ==
    /\ ev.op = "isCurrentPeriod"
    /\ ev.arg.timestamp = CalculateLastResetTime(GetResetTime(Machine), now, now)
    /\ ev.arg.timestamp < now
    /\ ev.ret = TRUE

\* the step record cannot be read or is missing, empty or malformed
UnusableStepData ==
    \/ ~lsReadable
    \/ lsStepData = Null
    \/ lsStepData[1] \in MalformedStepData \cup {EmptyString}

\* C26: a malformed or unreadable step record makes loadStepData() return
\* null and initialize() start from 0 steps; getResetTime() always returns
\* a string of the HH:MM grammar, and 00:00 when the stored one is missing,
\* malformed or unreadable; a malformed or unreadable history makes
\* loadHistory() return the empty array; none of them throws.
C26_ReadFailures ==
    [][/\ ev'.op = "readStorage" =>
            /\ ~ev'.threw
            /\ (ev'.ret.stepData = Null) = UnusableStepData
            /\ ev'.ret.resetTime \in AllHHMM
            /\ (~lsReadable \/ lsResetTime = Null \/ lsResetTime[1] \notin AllHHMM)
                  => ev'.ret.resetTime = DEFAULT_RESET_TIME
            /\ (~lsReadable \/ lsHistory = Null \/ lsHistory[1] \in MalformedHistories)
                  => ev'.ret.history = <<>>
       /\ ev'.op = "appInitialize" /\ UnusableStepData =>
            /\ ~ev'.threw
            /\ ev'.arg.counted = 0
            /\ phase' = "running"]_vars

\* C26 witness: all three items are malformed and are read as null, 00:00
\* and the empty array
C26_Witness ==
    /\ ev.op = "readStorage"
    /\ lsReadable
    /\ lsStepData = Some(<<"{">>)
    /\ lsResetTime = Some(T2400)
    /\ lsHistory = Some(<< <<"{">> >>)
    /\ ev.ret = [stepData |-> Null, resetTime |-> DEFAULT_RESET_TIME, history |-> <<>>]

----------------------------------------------------------------------------
(* Properties of the boundary calculations (SpecBoundary)                  *)

Computed == ev.op = "boundaries"
SingleReading == ev.arg[1] = ev.arg[2]

\* the instant the functions were evaluated at is itself a boundary
AtBoundary ==
    LET hm == ParseResetTime(GetResetTime(Machine))
    IN  SetHours(now, hm[1], hm[2]) = now

SameOffsetAround(a, b) == Offset(a - Day) = Offset(b)

C32_SameLastBoundary ==
    Computed =>
        /\ ev.ret.lastOfCounter = ev.ret.last
        /\ SingleReading => /\ ev.ret.lastOfCounter <= now
                            /\ ev.ret.lastOfCounter > now - Day - DstShift

\* C32 witness: evaluated exactly at a boundary after the clocks went
\* forward, both functions return that instant
C32_Witness ==
    /\ Computed /\ SingleReading /\ AtBoundary
    /\ now > DstStart
    /\ ev.ret.lastOfCounter = now
    /\ ev.ret.last = now

----------------------------------------------------------------------------
(* Properties of the sensor start (SpecEngine)                             *)

----------------------------------------------------------------------------
(* Properties of the sensor adapter (SpecSensor)                           *)

\* C34 as stated: under every interleaving of startListening and
\* stopListening calls at most one devicemotion handler is registered; a
\* startListening while listening adds no handler; stopListening leaves no
\* handler registered and changes nothing when the adapter is not listening;
\* and a devicemotion event reaches the callback at most once, and not at
\* all when stopListening was the last code to run on the adapter.
C34_Original ==
    [][/\ Cardinality(adapter'.handlers) <= 1
       /\ (ev'.op = "startListening" /\ listening) => adapter' = adapter
       /\ ev'.op = "stopListening" =>
             /\ ~listening' /\ adapter'.handlers = {}
             /\ ~listening => adapter' = adapter
       /\ ev'.op = "devicemotion" => ev'.arg.delivered <= 1
       /\ (ev'.op = "devicemotion" /\ ev.op = "stopListening") =>
             ev'.arg.delivered = 0]_vars

----------------------------------------------------------------------------
(* Properties of the two eligibility checks (SpecEligibility)              *)

\* C35: at one instant and with one reset time, for every persisted record,
\* initialize() restores the record's count iff start() would not run the
\* catch-up reset for it: restored iff timestamp >= lastBoundary, caught up
\* iff timestamp < lastBoundary.
C35_Complementary ==
    ev.op = "eligibility" =>
        LET lastBoundary == CalculateLastResetTime(GetResetTime(Machine), now, now)
        IN  /\ ev.ret.restored = ~ev.ret.caughtUp
            /\ ev.ret.restored = (ev.arg.timestamp >= lastBoundary)
            /\ ev.ret.caughtUp = (ev.arg.timestamp < lastBoundary)

\* C35 witness: a record stamped exactly at the last boundary, which lies
\* before now, is restored and not caught up
C35_Witness ==
    /\ ev.op = "eligibility"
    /\ ev.arg.timestamp = CalculateLastResetTime(GetResetTime(Machine), now, now)
    /\ ev.arg.timestamp < now
    /\ ev.ret.restored /\ ~ev.ret.caughtUp

----------------------------------------------------------------------------
(* Properties of the armed wake-up (Spec)                                  *)

\* the pending wake-up the scheduler holds after this step is due at t
ArmedFor(t) == \E tm \in timers' : tm.id = timerId' /\ tm.due = t

\* C36 as stated: after start(), after a successful updateResetTime() and
\* after each re-arm that follows a firing (a late firing included), the
\* outstanding wake-up is due at nextBoundary(stored reset time, now), so
\* every timer-driven reset happens at an HH:MM boundary of the reset time.
C36_Original ==
    [][/\ StartStep =>
             ArmedFor(CalculateNextResetTime(GetResetTime(BeforeStart),
                                             StartBegan, StartBegan))
       /\ ev'.op = "wakeUp" =>
             ArmedFor(CalculateNextResetTime(GetResetTime(Machine), now, now))]_vars

\* C37 as stated: even when the clock crosses a boundary between the clock
\* reads of start(), start() causes at most one reset and one history entry
\* for that boundary: no wake-up fires for the boundary that the catch-up
\* reset of start() has already served.
C37_Original ==
    [][ev'.op = "wakeUp" =>
         \A tm \in timers : (tm.id = timerId /\ now >= tm.due) => tm.due # caught]_vars

----------------------------------------------------------------------------
(* Properties of a change of the reset time (SpecFault)                    *)

\* the record stored before this step is older than the last boundary of
\* the reset time this step sets
StaleForNewTime ==
    /\ StoredOf(lsStepData) # Null
    /\ StoredOf(lsStepData)[1].timestamp <
          CalculateLastResetTime(ev'.arg.time, now', now')

\* C38: a successful updateResetTime(t) on the running application changes
\* the count only when the persisted record's timestamp is strictly before
\* lastBoundary(t, now): then the current count is appended to the history
\* and the count becomes 0; otherwise count and history stay as they were.
C38_UpdateAndCount ==
    [][UpdateSucceeds =>
         IF StaleForNewTime
         THEN /\ currentSteps' = 0
              /\ HistoryOf(lsHistory') =
                    Append(HistoryOf(lsHistory),
                           [steps |-> Max(0, currentSteps),
                            date |-> ToISOString(now')])
         ELSE /\ currentSteps' = currentSteps
              /\ lsHistory' = lsHistory]_vars

\* C38 witness: with the timer armed and one step counted before 15:00,
\* updateResetTime("15:00") after 15:00 archived the step and zeroed the count
C38_Witness ==
    /\ ev.op = "updateResetTime" /\ ev.ret = TRUE /\ ev.arg.armed
    /\ ev.arg.time = T1500
    /\ ev.resets = <<1>>
    /\ currentSteps = 0
    /\ LastEntry(lsHistory) = [steps |-> 1, date |-> ToISOString(now)]

----------------------------------------------------------------------------
(* Properties of executeReset under failing writes (SpecResetFault)        *)

\* C39: executeReset() zeroes the count whether or not the history write
\* succeeded: when saveHistory returns false the history is unchanged,
\* reset() still runs, the count becomes 0 and the observers are notified
\* with 0; when it returns true the history has gained one entry.
C39_ResetDespiteFailedArchive ==
    [][ev'.resets # <<>> =>
         /\ currentSteps' = 0
         /\ ev'.op = "wakeUp" =>
               ev'.notes = [i \in 1..Len(observers) |-> <<observers[i], 0>>]
         /\ IF lsWritable
            THEN Len(HistoryOf(lsHistory')) = Len(HistoryOf(lsHistory)) + 1
            ELSE lsHistory' = lsHistory]_vars

\* C39 witness: the wake-up fired with one step counted while writes
\* failed; no history entry exists, the count is 0 and the display observer
\* was called with 0
C39_Witness ==
    /\ ev.op = "wakeUp" /\ ev.resets = <<1>>
    /\ ~lsWritable
    /\ lsHistory = Null
    /\ currentSteps = 0
    /\ ev.notes = <<<<"ui", 0>>>>

----------------------------------------------------------------------------
(* Properties of the notified value (SpecCorrupt)                          *)

\* C40 as stated: the value delivered to the observers on every increment
\* and reset equals getCurrentSteps() at the time of the notification and is
\* never negative, also when the internal count had been forced negative
\* before the increment.
C40_Original ==
    [][ev'.op \in {"incrementStep", "onMotionDetected", "reset"} =>
         \A i \in 1..Len(ev'.notes) :
            /\ ev'.notes[i][2] = Max(0, currentSteps')
            /\ ev'.notes[i][2] >= 0]_vars

====
